---- MODULE Spec2Model ----
(***************************************************************************)
(* Model of the Vedic-Market-Energy stock advisor bot.                     *)
(*                                                                         *)
(*   src/main.py       score_stock, morning_run, the bootstrap loop        *)
(*   src/keep_alive.py get/set_last_eod_run, eod_runner                    *)
(*   src/news_logic.py the news payload (its "noise" scalar)               *)
(*                                                                         *)
(* Numbers that are floats in the program are kept as scaled integers:     *)
(* news noise and volume ratio in hundredths, size fractions in percent.   *)
(* The indicator library calls (pandas_ta) and the network are inputs: an  *)
(* "indicator record" holds what they return for one symbol's DataFrame.   *)
(***************************************************************************)
EXTENDS Integers, Sequences, FiniteSets, TLC

(***************************************************************************)
(* Program constants                                                       *)
(***************************************************************************)
SECTOR_CAP == 2
MIN_VOL_FLOOR == 100000
MIN_PRICE == 50
STATE_RUN_KEY == "last_run_date"
STATE_KEY == "last_eod_run"

\* main.py:314  news.get("noise", 0) > 0.75, in hundredths
MACRO_NOISE_LIMIT == 75
\* main.py:337  res['score'] >= 55
MIN_RESULT_SCORE == 55
\* main.py:350  r['score'] >= 80
STRONG_BUY_SCORE == 80
\* main.py:352  r['score'] >= 65
BUY_SCORE == 65
\* main.py:383  buys[:5]
MSG_TOP == 5
\* main.py:166  len(df) < 50
MIN_BARS == 50

(***************************************************************************)
(* Bounds of the model                                                     *)
(***************************************************************************)
\* symbols of the universe in the ranking specification
NumSymbols == 7

Symbols == 1 .. NumSymbols

\* sector_map of load_nifty_200_and_sectors: an input of the run.  Symbols
\* are spread over three industries, so one industry holds three symbols.
SectorOf(sym) == sym % 3

\* max with its first argument ignored
SecondOf(a, b) == b

Max(a, b) == IF a >= b THEN a ELSE b
Min(a, b) == IF a <= b THEN a ELSE b

(***************************************************************************)
(* score_stock (main.py:162-258)                                           *)
(*                                                                         *)
(* An indicator record `ind` is what the DataFrame and the pandas_ta calls *)
(* give for one symbol:                                                    *)
(*   bars               len(df)                                            *)
(*   price              float(close.iloc[-1])                              *)
(*   last_vol, avg_vol  volume.iloc[-1], volume.rolling(20).mean().iloc[-1]*)
(*   rsi_kind, rsi      ta.rsi: "none" (returned None), "nan" (a series    *)
(*                      that is NaN throughout), "value" (last value)      *)
(*   ema_kind, ema      ta.ema: "none" or "value"                          *)
(*   bands              ta.bbands / ta.kc: "none" (either is None),        *)
(*                      "error" (a column lookup raises), "value"          *)
(*   bbu, bbl, kcu, kcl the last band values                               *)
(* The result is [kind |-> "none"] for a None return, [kind |-> "raise"]   *)
(* for an exception leaving score_stock, or the returned dict.  The stop   *)
(* loss and target fields only feed message text and are left out.         *)
(***************************************************************************)
NoneResult == [kind |-> "none"]
\* no call has been made yet
NotCalled == [kind |-> "idle"]
RaiseResult == [kind |-> "raise"]

\* main.py:205-208
RsiPoints(ind) ==
    LET rsi_val == IF ind.rsi_kind = "none" THEN 50 ELSE ind.rsi
    IN  IF rsi_val >= 70 THEN 30
        ELSE IF rsi_val >= 60 THEN 20
        ELSE IF rsi_val >= 50 THEN 10
        ELSE 0

\* main.py:211-217; stretch = (price - ema_val) / ema_val * 100, and the
\* comparisons are cross-multiplied by ema_val > 0.
StretchPoints(ind) ==
    LET ema_val == IF ind.ema_kind = "none" THEN ind.price ELSE ind.ema
        num == (ind.price - ema_val) * 100
    IN  IF num > 5 * ema_val THEN 0 - 15
        ELSE IF num < (0 - 2) * ema_val THEN 10
        ELSE IF num > 0 THEN 25
        ELSE 0

\* main.py:220  round(float(volume.iloc[-1]) / avg_vol, 2), in hundredths
VolRatio(ind) == (2 * 100 * ind.last_vol + ind.avg_vol) \div (2 * ind.avg_vol)

\* main.py:221-222
VolPoints(ind) ==
    IF VolRatio(ind) >= 250 THEN 20
    ELSE IF VolRatio(ind) >= 150 THEN 10
    ELSE 0

\* main.py:228-241
SqueezeNow(ind) ==
    /\ ind.bands = "value"
    /\ ind.bbu < ind.kcu
    /\ ind.bbl > ind.kcl

Breakout(ind) ==
    /\ ind.bands = "value"
    /\ ind.price > ind.bbu

\* main.py:201-248, before the clamp
RawScore(ind, was_squeezing) ==
    RsiPoints(ind) + StretchPoints(ind) + VolPoints(ind)
    + (IF SqueezeNow(ind) THEN 10 ELSE 0)
    + (IF Breakout(ind) THEN 10 ELSE 0)
    + (IF was_squeezing /\ ~SqueezeNow(ind) /\ Breakout(ind) THEN 15 ELSE 0)

\* score_stock without its row-count and liquidity returns
ScoreStockNoFloor(ind, was_squeezing) ==
    IF ind.rsi_kind = "nan" THEN RaiseResult
    ELSE [kind      |-> "ok",
          score     |-> Min(100, Max(0, RawScore(ind, was_squeezing))),
          vol_ratio |-> VolRatio(ind),
          squeeze   |-> SqueezeNow(ind),
          breakout  |-> Breakout(ind),
          price     |-> ind.price]

ScoreStock(ind, was_squeezing) ==
    IF ind.bars < MIN_BARS THEN NoneResult
    ELSE IF ind.avg_vol < MIN_VOL_FLOOR \/ ind.price < MIN_PRICE THEN NoneResult
    \* rsi.dropna().iloc[-1] on an all-NaN series: IndexError, not caught
    ELSE IF ind.rsi_kind = "nan" THEN RaiseResult
    ELSE [kind      |-> "ok",
          score     |-> Min(100, Max(0, RawScore(ind, was_squeezing))),
          vol_ratio |-> VolRatio(ind),
          squeeze   |-> SqueezeNow(ind),
          breakout  |-> Breakout(ind),
          price     |-> ind.price]

(***************************************************************************)
(* Indicator records used as inputs                                        *)
(***************************************************************************)
BaseInd ==
    [bars |-> 100, price |-> 100, last_vol |-> 500000, avg_vol |-> 200000,
     rsi_kind |-> "value", rsi |-> 72, ema_kind |-> "value", ema |-> 99,
     bands |-> "value", bbu |-> 110, bbl |-> 90, kcu |-> 108, kcl |-> 92]

\* fewer than 50 bars: score_stock returns None
IndShort == [BaseInd EXCEPT !.bars = 40]
\* price below MIN_PRICE: score_stock returns None
IndIlliquid == [BaseInd EXCEPT !.price = 40]
\* RSI series NaN throughout (a flat close): score_stock raises
IndRsiNan == [BaseInd EXCEPT !.rsi_kind = "nan"]
\* 10 + 25 + 20 = 55, no flags
IndWatch == [BaseInd EXCEPT !.rsi = 55]
\* 20 + 25 + 20 = 65, no flags
IndBuy65 == [BaseInd EXCEPT !.rsi = 65]
\* 30 + 25 + 20 = 75, no flags
IndBuy75 == BaseInd
\* 30 + 25 + 20 + 10 = 85, breakout, no squeeze
IndStrong85 == [BaseInd EXCEPT !.bbu = 98]
\* 30 + 25 + 20 + 10 + 10 = 95, breakout inside a squeeze
IndStrong95Sq == [BaseInd EXCEPT !.bbu = 98, !.bbl = 95]

(***************************************************************************)
(* morning_run, the computation between the reads and the writes           *)
(***************************************************************************)
\* main.py:313-315
MacroRiskOff(noise) == noise > MACRO_NOISE_LIMIT

\* main.py:325-338, one iteration of the score loop.  acc.raised records an
\* exception that left score_stock: nothing catches it inside morning_run.
ScoreStep(acc, sym, inds, squeezing_yesterday) ==
    LET was_sq == sym \in squeezing_yesterday
        res == ScoreStock(inds[sym], was_sq)
    IN  IF acc.raised THEN acc
        ELSE IF res.kind = "raise" THEN [acc EXCEPT !.raised = TRUE]
        ELSE IF res.kind = "none" THEN acc
        ELSE LET r == [symbol    |-> sym,
                       sector    |-> SectorOf(sym),
                       score     |-> res.score,
                       vol_ratio |-> res.vol_ratio,
                       squeeze   |-> res.squeeze,
                       breakout  |-> res.breakout]
             IN  [raised          |-> FALSE,
                  results         |-> IF res.score >= MIN_RESULT_SCORE
                                      THEN Append(acc.results, r)
                                      ELSE acc.results,
                  squeezing_today |-> IF res.squeeze
                                      THEN Append(acc.squeezing_today, sym)
                                      ELSE acc.squeezing_today]

RECURSIVE ScoreLoopFrom(_, _, _, _, _)
ScoreLoopFrom(acc, i, order, inds, squeezing_yesterday) ==
    IF i > Len(order) THEN acc
    ELSE ScoreLoopFrom(ScoreStep(acc, order[i], inds, squeezing_yesterday),
                       i + 1, order, inds, squeezing_yesterday)

\* main.py:322-338; `order` is the iteration order of data.items()
ScoreLoop(order, inds, squeezing_yesterday) ==
    ScoreLoopFrom([raised |-> FALSE, results |-> <<>>, squeezing_today |-> <<>>],
                  1, order, inds, squeezing_yesterday)

\* list.sort is stable, also with reverse=True: x goes behind every element
\* whose score is at least its own.
RECURSIVE InsertByScore(_, _)
InsertByScore(sorted, x) ==
    IF sorted = <<>> THEN <<x>>
    ELSE IF Head(sorted).score >= x.score
         THEN <<Head(sorted)>> \o InsertByScore(Tail(sorted), x)
         ELSE <<x>> \o sorted

RECURSIVE SortFrom(_, _, _)
SortFrom(sorted, i, results) ==
    IF i > Len(results) THEN sorted
    ELSE SortFrom(InsertByScore(sorted, results[i]), i + 1, results)

\* The sort without reverse=True: ascending by score
RECURSIVE InsertByScoreAscending(_, _)
InsertByScoreAscending(sorted, x) ==
    IF sorted = <<>> THEN <<x>>
    ELSE IF Head(sorted).score <= x.score
         THEN <<Head(sorted)>> \o InsertByScoreAscending(Tail(sorted), x)
         ELSE <<x>> \o sorted

RECURSIVE SortAscendingFrom(_, _, _)
SortAscendingFrom(sorted, i, results) ==
    IF i > Len(results) THEN sorted
    ELSE SortAscendingFrom(InsertByScoreAscending(sorted, results[i]), i + 1, results)

SortResultsAscending(results) == SortAscendingFrom(<<>>, 1, results)

\* main.py:341  results.sort(key=lambda x: x['score'], reverse=True)
SortResults(results) == SortFrom(<<>>, 1, results)

\* main.py:348-353
RawBucket(r, macro_risk_off) ==
    IF r.score >= STRONG_BUY_SCORE /\ r.breakout /\ ~macro_risk_off
    THEN "STRONG_BUY"
    ELSE IF r.score >= BUY_SCORE THEN "BUY"
    ELSE "WATCHLIST"

\* "BUY" in bucket
IsBuy(bucket) == bucket \in {"BUY", "STRONG_BUY"}

SectorCount(sector_counts, sec) ==
    IF sec \in DOMAIN sector_counts THEN sector_counts[sec] ELSE 0

\* main.py:355-361: TRUE when the sector already holds SECTOR_CAP buys
SectorFull(count) == count >= SECTOR_CAP

\* main.py:347-376, one iteration of the bucket loop
BucketStep(acc, r, macro_risk_off) ==
    LET raw    == RawBucket(r, macro_risk_off)
        count  == SectorCount(acc.sector_counts, r.sector)
        capped == IsBuy(raw) /\ SectorFull(count)
        bucket == IF capped THEN "WATCHLIST" ELSE raw
        logged == IsBuy(bucket) /\ r.symbol \notin acc.open_positions
    IN  [sector_counts  |-> IF IsBuy(raw) /\ ~capped
                            THEN [s \in DOMAIN acc.sector_counts \cup {r.sector} |->
                                    IF s = r.sector THEN count + 1
                                    ELSE acc.sector_counts[s]]
                            ELSE acc.sector_counts,
         final_picks    |-> Append(acc.final_picks,
                                   [symbol |-> r.symbol, sector |-> r.sector,
                                    score |-> r.score, vol_ratio |-> r.vol_ratio,
                                    squeeze |-> r.squeeze, breakout |-> r.breakout,
                                    bucket |-> bucket]),
         new_log_rows   |-> IF logged
                            THEN Append(acc.new_log_rows,
                                        [symbol |-> r.symbol, action |-> bucket])
                            ELSE acc.new_log_rows,
         open_positions |-> IF logged
                            THEN acc.open_positions \cup {r.symbol}
                            ELSE acc.open_positions]

RECURSIVE BucketLoopFrom(_, _, _, _)
BucketLoopFrom(acc, i, sorted, macro_risk_off) ==
    IF i > Len(sorted) THEN acc
    ELSE BucketLoopFrom(BucketStep(acc, sorted[i], macro_risk_off),
                        i + 1, sorted, macro_risk_off)

\* main.py:343-376
BucketLoop(sorted, macro_risk_off, open_positions) ==
    BucketLoopFrom([sector_counts |-> <<>>, final_picks |-> <<>>,
                    new_log_rows |-> <<>>, open_positions |-> open_positions],
                   1, sorted, macro_risk_off)

\* main.py:379  buys = [x for x in final_picks if "BUY" in x['bucket']]
Buys(picks) == SelectSeq(picks, LAMBDA p : IsBuy(p.bucket))

\* main.py:381-391: the symbols listed in the setups message, or <<>>
\* when the risk-off notice is sent instead
MsgBuys(picks) == SubSeq(Buys(picks), 1, Min(MSG_TOP, Len(Buys(picks))))

\* The indicator record behind a profile name
IndOf(profile) ==
    CASE profile = "short" -> IndShort
      [] profile = "illiquid" -> IndIlliquid
      [] profile = "rsi_nan" -> IndRsiNan
      [] profile = "watch55" -> IndWatch
      [] profile = "buy65" -> IndBuy65
      [] profile = "buy75" -> IndBuy75
      [] profile = "strong85" -> IndStrong85
      [] profile = "strong95sq" -> IndStrong95Sq

IndsOf(profiles) == [sym \in DOMAIN profiles |-> IndOf(profiles[sym])]

\* main.py:118-157: data_map keeps, in the order of the symbols list, the
\* symbols whose frame has more than 50 rows
BatchDownload(symbols, inds) ==
    SelectSeq(symbols, LAMBDA sym : inds[sym].bars > MIN_BARS)

\* Iteration orders of data.items(): the universe list as loaded, or reversed
Ascending(n) == [i \in 1 .. n |-> i]
Descending(n) == [i \in 1 .. n |-> n + 1 - i]
Orders(n) == {Ascending(n), Descending(n)}

\* News noise values, in hundredths (news_logic.py:194)
NoiseValues == {50, 70, 80}

(***************************************************************************)
(* The spreadsheet.  A worksheet is the sequence of its data rows (the     *)
(* header row is not kept).  Dates are day numbers; 0 stands for None.     *)
(***************************************************************************)
\* Index of the first row with the key, 0 when there is none
RECURSIVE FirstRowFrom(_, _, _)
FirstRowFrom(rows, key, i) ==
    IF i > Len(rows) THEN 0
    ELSE IF rows[i].key = key THEN i
    ELSE FirstRowFrom(rows, key, i + 1)

FirstRow(rows, key) == FirstRowFrom(rows, key, 1)

RowsWithKey(rows, key) == {i \in DOMAIN rows : rows[i].key = key}

\* main.py:275  {r["key"]: r["value"] for r in raw_state}.get(key): a later
\* row of the same key overwrites an earlier one
StateMapGet(rows, key) ==
    IF RowsWithKey(rows, key) = {} THEN 0
    ELSE rows[CHOOSE i \in RowsWithKey(rows, key) :
                 \A j \in RowsWithKey(rows, key) : j <= i].value

\* keep_alive.py:62-73; read_ok is whether the sheet calls succeed
GetLastEodRun(rows, read_ok) ==
    IF read_ok /\ FirstRow(rows, STATE_KEY) # 0
    THEN rows[FirstRow(rows, STATE_KEY)].value
    ELSE 0

\* The outcomes of the sheet calls of one state write
WriteFaults == {"none", "read", "update", "append"}

\* keep_alive.py:75-91
SetLastEodRun(rows, date_str, fault) ==
    LET idx == FirstRow(rows, STATE_KEY)
    IN  IF fault = "read" THEN rows
        ELSE IF idx # 0
             THEN IF fault = "update" THEN rows
                  ELSE [rows EXCEPT ![idx].value = date_str]
             ELSE IF fault = "append" THEN rows
                  ELSE Append(rows, [key |-> STATE_KEY, value |-> date_str])

\* main.py:410-414.  find raising, find returning None (cell.row then
\* raises) and update_cell raising all reach the bare except, which appends.
\* ok is FALSE when that append_row raises too.
MorningStateWrite(rows, date_str, find_ok, update_ok, append_ok) ==
    LET idx == FirstRow(rows, STATE_RUN_KEY)
    IN  IF find_ok /\ idx # 0 /\ update_ok
        THEN [rows |-> [rows EXCEPT ![idx].value = date_str], ok |-> TRUE]
        ELSE IF append_ok
             THEN [rows |-> Append(rows, [key |-> STATE_RUN_KEY,
                                          value |-> date_str]),
                   ok |-> TRUE]
             ELSE [rows |-> rows, ok |-> FALSE]

\* main.py:281-293
OpenPositions(hist, now) ==
    {hist[i].symbol : i \in {j \in DOMAIN hist :
                                /\ hist[j].action = "BUY"
                                /\ hist[j].date >= now - 30}}

\* main.py:295-301
SqueezingYesterday(mem) ==
    IF Len(mem) > 0 THEN mem[Len(mem)].csv ELSE {}

\* main.py:331-335, 407: the symbols of squeezing_today
RECURSIVE SeqToSet(_)
SeqToSet(q) == IF q = <<>> THEN {} ELSE {Head(q)} \cup SeqToSet(Tail(q))


(***************************************************************************)
(* State                                                                   *)
(***************************************************************************)
VARIABLES
    today,          \* the IST date, a day number (ist_today)
    state_ws,       \* "state" worksheet: rows [key, value]
    history_ws,     \* "history" worksheet: rows [date, symbol, action]
    memory_ws,      \* "memory" worksheet: rows [date, csv]
    stocks_ws,      \* "stocks" worksheet: rows [symbol, score, bucket, sector]
    outbox,         \* Telegram messages sent by the latest morning_run
    nruns,          \* morning_run invocations so far
    reads,          \* latest morning_run: outcome of the reads at its start
    already_ran,    \* latest morning_run: state said last_run_date = today
    profiles,       \* latest morning_run: symbol -> profile of its DataFrame
    order,          \* latest morning_run: iteration order of data.items()
    noise,          \* latest morning_run: news["noise"], hundredths
    results,        \* latest morning_run: results after the sort
    final_picks,    \* latest morning_run: final_picks
    new_log_rows,   \* latest morning_run: new_log_rows
    msg_buys,       \* latest morning_run: picks listed in the setups message
    rpc,            \* latest morning_run: how far it got
    eod_pc,         \* eod_runner: "sleep" or "callback"
    eod_today,      \* eod_runner: its local `today`
    eod_starts,     \* date -> times eod_runner started the callback
    df,             \* score_stock: the indicator record of its DataFrame
    was_squeezing,  \* score_stock: its second argument
    res             \* score_stock: what the latest call returned

sheetVars == <<state_ws, history_ws, memory_ws, stocks_ws>>

runVars == <<outbox, nruns, reads, already_ran>>

rankVars == <<profiles, order, noise, results, final_picks, new_log_rows,
              msg_buys, rpc>>

eodVars == <<eod_pc, eod_today, eod_starts>>

scoreVars == <<df, was_squeezing, res>>

vars == <<today, sheetVars, runVars, rankVars, eodVars, scoreVars>>

\* days of the model
MaxDay == 2
\* morning_run invocations of a behaviour
MaxRuns == 2
\* callback starts counted per day
MaxStarts == 2
\* The universe load_nifty_200_and_sectors returns in the process
\* specification; batch_download fills data in this order.
RunUniverse == <<1, 2>>

RunSymbols == {RunUniverse[i] : i \in DOMAIN RunUniverse}

Days == 1 .. MaxDay

NoRun ==
    /\ outbox = <<>>
    /\ nruns = 0
    /\ reads = "ok"
    /\ already_ran = FALSE

EmptySheets ==
    /\ state_ws = <<>>
    /\ history_ws = <<>>
    /\ memory_ws = <<>>
    /\ stocks_ws = <<>>

EodIdle ==
    /\ eod_pc = "sleep"
    /\ eod_today = 0
    /\ eod_starts = [d \in Days |-> 0]

\* no score_stock call is being looked at
ScoreIdle ==
    /\ df = BaseInd
    /\ was_squeezing = FALSE
    /\ res = NotCalled

NoLocals ==
    /\ order = <<>>
    /\ noise = 0
    /\ results = <<>>
    /\ final_picks = <<>>
    /\ new_log_rows = <<>>
    /\ msg_buys = <<>>

(***************************************************************************)
(* The ranking run: morning_run from the score loop to the message, with   *)
(* empty history and memory sheets.                                        *)
(***************************************************************************)
RankProfiles == {"short", "buy65", "buy75", "strong85"}

RankInit ==
    /\ today = 1
    /\ EmptySheets
    /\ NoRun
    /\ EodIdle
    /\ profiles \in [Symbols -> RankProfiles]
    /\ NoLocals
    /\ ScoreIdle
    /\ rpc = "start"

\* main.py:318-341
RankScore ==
    /\ rpc = "start"
    /\ \E o \in Orders(NumSymbols) :
          /\ order' = o
          /\ results' = SortResults(ScoreLoop(BatchDownload(o, IndsOf(profiles)),
                                              IndsOf(profiles), {}).results)
    /\ rpc' = "sorted"
    /\ UNCHANGED <<profiles, noise, final_picks, new_log_rows, msg_buys>>
    /\ UNCHANGED <<today, sheetVars, runVars, eodVars, scoreVars>>

\* main.py:309-316, 343-376
RankBucket ==
    /\ rpc = "sorted"
    /\ \E n \in NoiseValues :
          LET out == BucketLoop(results, MacroRiskOff(n), {})
          IN  /\ noise' = n
              /\ final_picks' = out.final_picks
              /\ new_log_rows' = out.new_log_rows
    /\ rpc' = "bucketed"
    /\ UNCHANGED <<profiles, order, results, msg_buys>>
    /\ UNCHANGED <<today, sheetVars, runVars, eodVars, scoreVars>>

\* main.py:378-391
RankReport ==
    /\ rpc = "bucketed"
    /\ msg_buys' = MsgBuys(final_picks)
    /\ rpc' = "done"
    /\ UNCHANGED <<profiles, order, noise, results, final_picks, new_log_rows>>
    /\ UNCHANGED <<today, sheetVars, runVars, eodVars, scoreVars>>

RankNext == RankScore \/ RankBucket \/ RankReport

SpecRank == RankInit /\ [][RankNext]_vars

(***************************************************************************)
(* Properties of the ranking run                                           *)
(***************************************************************************)
Bucketed == rpc \in {"bucketed", "done"}

\* Size fraction of a bucket in percent: STRONG_BUY 0.25, BUY 0.15
SizePct(bucket) ==
    IF bucket = "STRONG_BUY" THEN 25 ELSE IF bucket = "BUY" THEN 15 ELSE 0

RECURSIVE SumSize(_)
SumSize(picks) ==
    IF picks = <<>> THEN 0
    ELSE SizePct(Head(picks).bucket) + SumSize(Tail(picks))

InSector(picks, sec) == SelectSeq(picks, LAMBDA p : p.sector = sec)

PickSectors(picks) == {picks[i].sector : i \in DOMAIN picks}

\* C5: with the picks that end STRONG_BUY or BUY as the plan (sizes 0.25 and
\* 0.15), the plan's total size is at most 0.90 and every sector's total is
\* at most 0.50.
C5_ExposureCaps ==
    Bucketed =>
        /\ SumSize(Buys(final_picks)) <= 90
        /\ \A sec \in PickSectors(final_picks) :
              SumSize(InSector(Buys(final_picks), sec)) <= 50

\* C6: at most 5 picks of a run end STRONG_BUY or BUY and are persisted
\* (rows of the stocks sheet with a BUY bucket, rows appended to history).
C6_PlanAtMostFive ==
    Bucketed =>
        /\ Len(Buys(final_picks)) <= 5
        /\ Len(new_log_rows) <= 5

\* C7: a pick is STRONG_BUY only if score >= 80, breakout, no squeeze, and
\* the run is risk-on, i.e. noise <= 0.6.
C7_StrongBuyGate ==
    Bucketed =>
        \A i \in DOMAIN final_picks :
            final_picks[i].bucket = "STRONG_BUY" =>
                /\ final_picks[i].score >= 80
                /\ final_picks[i].breakout
                /\ ~final_picks[i].squeeze
                /\ noise <= 60

\* The picks a run computes from iteration order o
PicksFor(o, n) ==
    BucketLoop(SortResults(ScoreLoop(o, IndsOf(profiles), {}).results),
               MacroRiskOff(n), {}).final_picks

\* C8: the picks are ordered by score descending, ties by symbol ascending,
\* and a run over the same data in another iteration order gives the same
\* ordered picks with the same buckets.
C8_OrderIndependent ==
    Bucketed =>
        /\ \A i, j \in DOMAIN final_picks :
              i < j =>
                 \/ final_picks[i].score > final_picks[j].score
                 \/ /\ final_picks[i].score = final_picks[j].score
                    /\ final_picks[i].symbol < final_picks[j].symbol
        /\ \A o \in Orders(NumSymbols) : PicksFor(o, noise) = final_picks

Tier(bucket) ==
    IF bucket = "STRONG_BUY" THEN 2 ELSE IF bucket = "BUY" THEN 1 ELSE 0

SameFlags(a, b) == a.breakout = b.breakout /\ a.squeeze = b.squeeze

\* C9 as stated: for any two picks a, b of a run with score_a > score_b and
\* identical flags, a's final bucket is never a weaker tier than b's.
C9_BucketMonotoneAllPairs ==
    Bucketed =>
        \A i, j \in DOMAIN final_picks :
            (final_picks[i].score > final_picks[j].score
             /\ SameFlags(final_picks[i], final_picks[j]))
            => Tier(final_picks[i].bucket) >= Tier(final_picks[j].bucket)

\* TRUE when the sector cap turned pick p, a buy by its score, into WATCHLIST
CappedPick(p) ==
    /\ IsBuy(RawBucket(p, MacroRiskOff(noise)))
    /\ p.bucket = "WATCHLIST"

\* C9 amended: for any two picks a, b of a run with score_a > score_b and
\* identical flags, a's final bucket is never a weaker tier than b's unless
\* the per-sector cap turned a into WATCHLIST; and never for two picks of
\* one sector.
C9_BucketMonotoneUnlessCapped ==
    Bucketed =>
        \A i, j \in DOMAIN final_picks :
            (final_picks[i].score > final_picks[j].score
             /\ SameFlags(final_picks[i], final_picks[j]))
            => \/ Tier(final_picks[i].bucket) >= Tier(final_picks[j].bucket)
               \/ /\ CappedPick(final_picks[i])
                  /\ final_picks[i].sector # final_picks[j].sector

\* C9 witness: two picks of one sector with identical flags, the lower-scored
\* one turned into WATCHLIST by the sector cap while the other is a buy.
C9_Witness ==
    /\ Bucketed
    /\ \E i, j \in DOMAIN final_picks :
          /\ final_picks[i].score > final_picks[j].score
          /\ SameFlags(final_picks[i], final_picks[j])
          /\ final_picks[i].sector = final_picks[j].sector
          /\ IsBuy(final_picks[i].bucket)
          /\ final_picks[j].score >= BUY_SCORE
          /\ final_picks[j].bucket = "WATCHLIST"

(***************************************************************************)
(* The main.py process: the bootstrap loop calls morning_run every hour.   *)
(* keep_alive() is called without a callback (main.py:426), so no          *)
(* eod_runner thread runs in this process.                                 *)
(***************************************************************************)
\* The frames a run of the process can download: for the first symbol too
\* few rows, a flat close, a breakout or a breakout inside a squeeze; for
\* the second a price under the floor or a breakout.
RunProfiles ==
    [sym \in RunSymbols |->
        IF sym = RunUniverse[1]
        THEN {"short", "rsi_nan", "strong85", "strong95sq"}
        ELSE {"illiquid", "strong85"}]

RunFrames ==
    {profs \in [RunSymbols -> UNION {RunProfiles[sym] : sym \in RunSymbols}] :
        \A sym \in RunSymbols : profs[sym] \in RunProfiles[sym]}

\* News noise of a run of the process: below and above the macro limit
RunNoiseValues == {50, 80}

\* Outcome of the three reads at the start (main.py:274, 282, 296)
ReadOutcomes == {"ok", "state_fails", "history_fails", "memory_fails"}

\* The gspread call of the batch writes that raises (main.py:394-414)
BatchFaults == {"none", "clear", "header", "rows", "history", "memory",
                "find", "update", "append", "find_append", "update_append"}

\* The first write that raises, in the order of main.py:395-414; 7 is none.
\* append_rows is only called with rows to append.
FailStage(fault, stock_rows, log_rows) ==
    CASE fault = "clear" -> 1
      [] fault = "header" -> 2
      [] fault = "rows" -> IF stock_rows = <<>> THEN 7 ELSE 3
      [] fault = "history" -> IF log_rows = <<>> THEN 7 ELSE 4
      [] fault = "memory" -> 5
      [] OTHER -> 7

StockRows(picks) ==
    [i \in DOMAIN picks |-> [symbol |-> picks[i].symbol, score |-> picks[i].score,
                             bucket |-> picks[i].bucket, sector |-> picks[i].sector]]

HistoryRows(log_rows, date_str) ==
    [i \in DOMAIN log_rows |-> [date |-> date_str, symbol |-> log_rows[i].symbol,
                                action |-> log_rows[i].action]]

\* main.py:307-316: the messages before the download
OpeningMsgs(n) ==
    <<"scan", "news">> \o (IF MacroRiskOff(n) THEN <<"macro_alert">> ELSE <<>>)

\* main.py:272-305: a read raises, "State Init Error", return
MorningInitError ==
    /\ rpc' = "init_error"
    /\ outbox' = <<>>
    /\ order' = <<>>
    /\ noise' = 0
    /\ results' = <<>>
    /\ final_picks' = <<>>
    /\ new_log_rows' = <<>>
    /\ msg_buys' = <<>>
    /\ UNCHANGED <<profiles, sheetVars>>

\* main.py:393-418: the batch writes of a run whose loop gave `scored` and
\* `out`, with the call named by `fault` raising
BatchWrites(scored, out, fault) ==
    LET stage == FailStage(fault, StockRows(out.final_picks), out.new_log_rows)
        wr    == MorningStateWrite(state_ws, today,
                                   fault \notin {"find", "find_append"},
                                   fault \notin {"update", "update_append"},
                                   fault \notin {"append", "find_append",
                                                 "update_append"})
    IN  /\ stocks_ws' = IF stage = 1 THEN stocks_ws
                        ELSE IF stage \in {2, 3} THEN <<>>
                        ELSE StockRows(out.final_picks)
        /\ history_ws' = IF stage <= 4 THEN history_ws
                         ELSE history_ws \o HistoryRows(out.new_log_rows, today)
        /\ memory_ws' = IF stage <= 5 THEN memory_ws
                        ELSE Append(memory_ws,
                                    [date |-> today,
                                     csv |-> SeqToSet(scored.squeezing_today)])
        /\ state_ws' = IF stage = 7 THEN wr.rows ELSE state_ws
        /\ outbox' = OpeningMsgs(noise')
                     \o (IF Buys(out.final_picks) # <<>> THEN <<"setups">>
                         ELSE <<"risk_off">>)
                     \o (IF stage = 7 /\ wr.ok THEN <<>> ELSE <<"save_error">>)

\* main.py:340-420: sort, buckets, message and writes after a score loop
\* that raised nothing
MorningFinish(scored, out, profs, o, n) ==
    /\ rpc' = "done"
    /\ profiles' = profs
    /\ order' = o
    /\ noise' = n
    /\ results' = SortResults(scored.results)
    /\ final_picks' = out.final_picks
    /\ new_log_rows' = out.new_log_rows
    /\ msg_buys' = MsgBuys(out.final_picks)
    /\ \E fault \in BatchFaults : BatchWrites(scored, out, fault)

\* main.py:325-327 and 429-434: score_stock raises inside the loop, the
\* exception leaves morning_run and the bootstrap loop reports the crash
MorningCrash(profs, o, n) ==
    /\ rpc' = "crash"
    /\ outbox' = OpeningMsgs(n) \o <<"crash_alert">>
    /\ profiles' = profs
    /\ order' = o
    /\ noise' = n
    /\ results' = <<>>
    /\ final_picks' = <<>>
    /\ new_log_rows' = <<>>
    /\ msg_buys' = <<>>
    /\ UNCHANGED sheetVars

\* main.py:307-420: the run after its reads succeeded
MorningWork(scored, profs, o, n) ==
    IF scored.raised
    THEN MorningCrash(profs, o, n)
    ELSE MorningFinish(scored,
                       BucketLoop(SortResults(scored.results), MacroRiskOff(n),
                                  OpenPositions(history_ws, today)),
                       profs, o, n)

\* main.py:263-420 with 428-435: one iteration of the bootstrap loop
MorningRun ==
    /\ nruns < MaxRuns
    /\ nruns' = nruns + 1
    /\ already_ran' = (StateMapGet(state_ws, STATE_RUN_KEY) = today)
    /\ \E rd \in ReadOutcomes :
          /\ reads' = rd
          /\ IF rd # "ok"
             THEN MorningInitError
             ELSE \E profs \in RunFrames, n \in RunNoiseValues :
                     MorningWork(ScoreLoop(BatchDownload(RunUniverse, IndsOf(profs)),
                                           IndsOf(profs),
                                           SqueezingYesterday(memory_ws)),
                                 profs, RunUniverse, n)
    /\ UNCHANGED <<today, eodVars, scoreVars>>

\* The IST date changes
Midnight ==
    /\ today < MaxDay
    /\ today' = today + 1
    /\ UNCHANGED <<sheetVars, runVars, rankVars, eodVars, scoreVars>>

Init ==
    /\ today = 1
    /\ EmptySheets
    /\ NoRun
    /\ EodIdle
    /\ profiles = [sym \in RunSymbols |-> "short"]
    /\ NoLocals
    /\ ScoreIdle
    /\ rpc = "start"

Next == MorningRun \/ Midnight

Spec == Init /\ [][Next]_vars

(***************************************************************************)
(* A process that runs keep_alive(eod_callback): the eod_runner thread     *)
(* polls every 30 minutes.  The callback is the caller's; it returns or    *)
(* raises.  The process can be restarted at any moment.                    *)
(***************************************************************************)
\* keep_alive.py:101-108: one poll; the callback starts when the state does
\* not say today
EodPoll ==
    /\ eod_pc = "sleep"
    /\ eod_today' = today
    /\ \E read_ok \in BOOLEAN :
          IF GetLastEodRun(state_ws, read_ok) # today
          THEN /\ eod_starts[today] < MaxStarts
               /\ eod_starts' = [eod_starts EXCEPT ![today] = @ + 1]
               /\ eod_pc' = "callback"
          ELSE UNCHANGED <<eod_starts, eod_pc>>
    /\ UNCHANGED <<today, sheetVars, runVars, rankVars, scoreVars>>

\* keep_alive.py:108-109: the callback returns and the date is saved
EodCallbackReturns ==
    /\ eod_pc = "callback"
    /\ \E fault \in WriteFaults :
          state_ws' = SetLastEodRun(state_ws, eod_today, fault)
    /\ eod_pc' = "sleep"
    /\ UNCHANGED <<today, history_ws, memory_ws, stocks_ws, runVars, rankVars,
                   eod_today, eod_starts, scoreVars>>

\* keep_alive.py:111-112: the callback raises, the runner logs and sleeps
EodCallbackRaises ==
    /\ eod_pc = "callback"
    /\ eod_pc' = "sleep"
    /\ UNCHANGED <<today, sheetVars, runVars, rankVars, eod_today, eod_starts,
                   scoreVars>>

\* The process is restarted or redeployed: the thread starts over, the
\* sheet stays
EodRestart ==
    /\ eod_pc' = "sleep"
    /\ eod_today' = 0
    /\ UNCHANGED <<today, sheetVars, runVars, rankVars, eod_starts, scoreVars>>

EodInit ==
    /\ today = 1
    /\ state_ws \in {<<>>, <<[key |-> STATE_RUN_KEY, value |-> 1]>>}
    /\ history_ws = <<>>
    /\ memory_ws = <<>>
    /\ stocks_ws = <<>>
    /\ NoRun
    /\ EodIdle
    /\ profiles = [sym \in RunSymbols |-> "short"]
    /\ NoLocals
    /\ ScoreIdle
    /\ rpc = "start"

EodNext ==
    \/ EodPoll
    \/ EodCallbackReturns
    \/ EodCallbackRaises
    \/ EodRestart
    \/ Midnight

SpecEod == EodInit /\ [][EodNext]_vars

(***************************************************************************)
(* Properties of the processes                                             *)
(***************************************************************************)
\* C1: eod_runner never starts the callback a second time for an IST date
\* on which it has already started it.
C1_CallbackOncePerDay == \A d \in Days : eod_starts[d] <= 1

Ran == nruns > 0

\* C2: a morning_run invoked when the state sheet already says
\* last_run_date = today returns without sending a message and without
\* scoring.
C2_NoSecondRunSameDay ==
    (Ran /\ already_ran) =>
        /\ outbox = <<>>
        /\ rpc \notin {"done", "crash"}

\* C3: the state sheet holds at most one row per key.
C3_OneRowPerKey ==
    \A key \in {STATE_RUN_KEY, STATE_KEY} :
        Cardinality(RowsWithKey(state_ws, key)) <= 1

\* C4: a morning_run whose read of the state, history or memory sheet
\* raises still scores, ranks and reports.
C4_ReadFailureProceeds ==
    (Ran /\ reads # "ok") =>
        /\ rpc = "done"
        /\ \E i \in DOMAIN outbox : outbox[i] \in {"setups", "risk_off"}

PickedSymbols == {final_picks[i].symbol : i \in DOMAIN final_picks}

Usable(profile) ==
    /\ ScoreStock(IndOf(profile), FALSE).kind = "ok"
    /\ ScoreStock(IndOf(profile), FALSE).score >= MIN_RESULT_SCORE

\* C10: in a run whose reads succeeded, every symbol whose own series scores
\* at least 55 is ranked and the picks are reported, whatever happens with
\* the other symbols.
C10_SymbolFailureIsolated ==
    (Ran /\ reads = "ok") =>
        \A sym \in RunSymbols :
            Usable(profiles[sym]) =>
                /\ sym \in PickedSymbols
                /\ \E i \in DOMAIN outbox : outbox[i] \in {"setups", "risk_off"}

\* C11: the score of a symbol in a run depends only on the symbol's own
\* series: two symbols whose series are equal get the same score, whatever
\* the memory sheet holds from earlier runs.
C11_ScoreFromSeriesOnly ==
    (Ran /\ rpc = "done") =>
        \A i, j \in DOMAIN final_picks :
            profiles[final_picks[i].symbol] = profiles[final_picks[j].symbol]
            => final_picks[i].score = final_picks[j].score

\* no symbol of the universe yields usable data: its frame is dropped by
\* batch_download or score_stock returns None for it
NoUsableData ==
    \A sym \in RunSymbols :
        \/ IndOf(profiles[sym]).bars <= MIN_BARS
        \/ IndOf(profiles[sym]).avg_vol < MIN_VOL_FLOOR
        \/ IndOf(profiles[sym]).price < MIN_PRICE

\* C13: a morning_run that got past its reads and in which no symbol yields
\* usable data raises nothing, ends with no pick, no BUY entry and no new
\* history row, and sends the "no high-quality setups" message.
C13_NoDataDegradesGracefully ==
    (Ran /\ reads = "ok" /\ NoUsableData) =>
        /\ rpc = "done"
        /\ final_picks = <<>>
        /\ Buys(final_picks) = <<>>
        /\ new_log_rows = <<>>
        /\ \E i \in DOMAIN outbox : outbox[i] = "risk_off"
        /\ \A i \in DOMAIN outbox : outbox[i] \notin {"setups", "crash_alert"}

\* both ways of having no data in one finished run
C13_Witness ==
    /\ Ran
    /\ reads = "ok"
    /\ rpc = "done"
    /\ profiles = <<"short", "illiquid">>
    /\ outbox = <<"scan", "news", "risk_off">>

\* C14: the history sheet never holds two rows of the same symbol whose
\* dates are at most 30 days apart, so a symbol logged with BUY or
\* STRONG_BUY is not logged again while that position is open.
C14_NoDuplicateOpenPosition ==
    \A i, j \in DOMAIN history_ws :
        (i < j /\ history_ws[i].symbol = history_ws[j].symbol)
        => history_ws[j].date - history_ws[i].date > 30

(***************************************************************************)
(* score_stock on its own: one call on an indicator record drawn from the  *)
(* values each branch of main.py:166-248 distinguishes.                    *)
(***************************************************************************)
\* RSI below 50, 50..59, 60..69, 70 and above
RsiValues == {45, 55, 65, 72}
\* EMA for price 100: stretch above 5, between 0 and 5, exactly 0, below -2
EmaValues == {90, 99, 100, 104}
\* last volume for an average of 200000: ratio 1.0, 1.5, 2.5
LastVolValues == {200000, 300000, 500000}
\* upper and lower Bollinger band for price 100 inside the Keltner channel
\* 92..108: neither flag, breakout, squeeze with breakout, squeeze
BandValues == {<<110, 90>>, <<98, 90>>, <<98, 95>>, <<105, 95>>}

ScoreInputs ==
    {[bars |-> b, price |-> pr, last_vol |-> lv, avg_vol |-> av,
      rsi_kind |-> rk, rsi |-> r, ema_kind |-> ek, ema |-> e,
      bands |-> bk, bbu |-> bb[1], bbl |-> bb[2], kcu |-> 108, kcl |-> 92] :
        b \in {40, 100}, pr \in {40, 100}, lv \in LastVolValues,
        av \in {50000, 200000}, rk \in {"none", "nan", "value"},
        r \in RsiValues, ek \in {"none", "value"}, e \in EmaValues,
        bk \in {"none", "error", "value"}, bb \in BandValues}

ScoreInit ==
    /\ today = 1
    /\ EmptySheets
    /\ NoRun
    /\ EodIdle
    /\ profiles = [sym \in RunSymbols |-> "short"]
    /\ NoLocals
    /\ rpc = "start"
    /\ df \in ScoreInputs
    /\ was_squeezing \in BOOLEAN
    /\ res = NotCalled

\* main.py:162-258: score_stock(df, was_squeezing) returns or raises
ScoreCall ==
    /\ res = NotCalled
    /\ res' = ScoreStock(df, was_squeezing)
    /\ UNCHANGED <<today, sheetVars, runVars, rankVars, eodVars, df,
                   was_squeezing>>

ScoreNext == ScoreCall

SpecScore == ScoreInit /\ [][ScoreNext]_vars

(***************************************************************************)
(* Properties of score_stock                                               *)
(***************************************************************************)
\* C12: every result score_stock returns carries an integer score between
\* 0 and 100.
C12_ScoreBounds ==
    res.kind = "ok" => res.score \in 0 .. 100

\* a returned result whose components sum below 0
C12_Witness ==
    /\ res.kind = "ok"
    /\ RawScore(df, was_squeezing) < 0
    /\ res.score = 0

\* a returned result whose components sum to the upper limit
C12_WitnessTop ==
    /\ res.kind = "ok"
    /\ RawScore(df, was_squeezing) = 100

====
